---- MODULE Spec2Model ----
(***************************************************************************)
(* Issue Tag Reviewer (src/main.py): a Streamlit session over SQLite files *)
(* kept in TEMP_FOLDER.                                                    *)
(*                                                                         *)
(* Two specifications share the variables:                                 *)
(*   Spec       the Streamlit session: one action per user interaction,    *)
(*              each running the widget callback, the handler and the      *)
(*              script rerun that follows it;                              *)
(*   StoreSpec  the database helper functions called directly with         *)
(*              arbitrary arguments.                                       *)
(*                                                                         *)
(* Encodings: Python None, NaN and SQL NULL are the string None; a NULL    *)
(* review_date is NullDate (0) and datetime.now().isoformat() is the value *)
(* of the clock `now` (>= 1), so later timestamps are larger.  Column      *)
(* values are strings, for which astype(str) changes nothing.  Lists whose *)
(* order no handler depends on (selectbox options) are sets.               *)
(***************************************************************************)
EXTENDS Integers, Sequences, FiniteSets, TLC

\* ---------------------------------------------------------------- bounds
MaxRows == 3
MaxClock == 1

\* ------------------------------------------------------------- constants
None == "<None>"
NullDate == 0
NoNav == -1
All == "All"

REQUIRED_COLUMNS ==
    {"source", "Issue", "StakeholderTypeArray", "WorksheetLabelArray",
     "IssueTag1", "IssueTag2", "IssueTag3", "IssueTag4",
     "IssueTag5", "IssueTag6", "IssueTag7", "IssueTag8"}

ReviewColumns == {"record_id", "reviewed_tags", "tagging_notes", "review_date"}

\* file names in TEMP_FOLDER; NoDb is session_state['active_db'] = None
DbNames == {"a.db", "b.db"}
\* the file the direct calls of StoreSpec work on
StoreDbs == {"a.db"}
NoDb == "<no db>"

NoFile == [exists |-> FALSE, columns |-> {}, rows |-> <<>>]

\* ------------------------------------------------------- input worksheets
\* Variant 1 is what pd.read_excel can deliver (an empty cell is NaN, never
\* ""); variant 2 also holds the empty string, which a dataframe handed to
\* init_db directly can hold.
SourceCycle(k) ==
    IF k = 1 THEN <<"X", "All", None, "X">> ELSE <<"All", "", "X", "">>
LabelCycle(k) ==
    IF k = 1 THEN <<"L1", "L2", "L1", "L1">> ELSE <<"L2", "L1", "All", "L2">>

SampleRow(i, k) ==
    [c \in REQUIRED_COLUMNS |->
        CASE c = "source" -> SourceCycle(k)[((i - 1) % 4) + 1]
          [] c = "WorksheetLabelArray" -> LabelCycle(k)[((i - 1) % 4) + 1]
          [] c = "Issue" -> "issue"
          [] c = "IssueTag1" -> "T1"
          [] OTHER -> None]

\* a worksheet of n rows holding the columns cols
Sheet(n, cols, k) ==
    [columns |-> cols,
     rows |-> [i \in 1..n |-> [c \in cols |-> SampleRow(i, k)[c]]]]

ColumnSets ==
    {REQUIRED_COLUMNS,
     REQUIRED_COLUMNS \ {"IssueTag8"},
     REQUIRED_COLUMNS \ {"source", "Issue"}}

\* the worksheets a user uploads, and the dataframes init_db is called with
Sheets ==
    {Sheet(n, REQUIRED_COLUMNS, 1) : n \in {0, MaxRows}}
        \cup {Sheet(MaxRows, REQUIRED_COLUMNS \ {"source", "Issue"}, 1)}
DataFrames ==
    {Sheet(n, REQUIRED_COLUMNS, 2) : n \in 0..MaxRows}
        \cup {Sheet(MaxRows, cols, 1) : cols \in ColumnSets}
NoSheet == [columns |-> {}, rows |-> <<>>]
Unset == "<unset>"

\* ",".join(selection) for the selections a reviewer makes, and its split
CsvChoices == {"", "T1"}
NoteChoices == {"", "note"}

SplitTags(csv) ==
    CASE csv = "T1" -> {"T1"}
      [] csv = "T1,T2" -> {"T1", "T2"}
      [] OTHER -> {}

\* the last message a run leaves on the page
Message(text, cols) == [text |-> text, cols |-> cols]
NoMsg == Message("", {})
ExistsMsg == Message("A file with that name already exists.", {})
InvalidNameMsg == Message("Please enter a valid name.", {})
NoMoreMsg == Message("No more unreviewed records found below this point.", {})

\* ------------------------------------------------------------- variables
VARIABLES files, active_db, nav_index, t2_source, t2_label, df_filtered,
          msg, now, confirmed, imported, touched, lastCall

\* confirmed, imported and touched are history variables: the record ids a
\* tag confirmation was saved for, the dataframe each file was created from,
\* and the files updated since they were created.
vars == <<files, active_db, nav_index, t2_source, t2_label, df_filtered,
          msg, now, confirmed, imported, touched, lastCall>>

\* ------------------------------------------------ database helper functions
RECURSIVE SelectSeq2(_, _, _)
\* the rows of s, in order, whose source / WorksheetLabelArray match
SelectSeq2(s, fs, fl) ==
    IF s = <<>> THEN <<>>
    ELSE LET r == Head(s)
             keep == /\ (fs = None \/ r["source"] = fs)
                     /\ (fl = None \/ r["WorksheetLabelArray"] = fl)
         IN  IF keep THEN <<r>> \o SelectSeq2(Tail(s), fs, fl)
             ELSE SelectSeq2(Tail(s), fs, fl)

MissingCols(df) == REQUIRED_COLUMNS \ df.columns

ensure_schema_compatibility(t) ==
    IF ~t.exists \/ "review_date" \in t.columns THEN t
    ELSE [exists |-> TRUE,
          columns |-> t.columns \cup {"review_date"},
          rows |-> [i \in 1..Len(t.rows) |->
                      [c \in t.columns \cup {"review_date"} |->
                          IF c = "review_date" THEN NullDate ELSE t.rows[i][c]]]]

\* range(0, len(df))
RecordIds_FromZero(n) == [i \in 1..n |-> i - 1]

RecordIds(n) == [i \in 1..n |-> i]

init_db(df) ==
    LET cols == df.columns \cup ReviewColumns \cup REQUIRED_COLUMNS
        ids == RecordIds(Len(df.rows))
    IN  [exists |-> TRUE,
         columns |-> cols,
         rows |-> [i \in 1..Len(df.rows) |->
                    [c \in cols |->
                       CASE c = "record_id" -> ids[i]
                         [] c = "reviewed_tags" -> None
                         [] c = "tagging_notes" -> ""
                         [] c = "review_date" -> NullDate
                         [] c \notin ReviewColumns /\ c \in df.columns -> df.rows[i][c]
                         [] OTHER -> None]]]

\* "if filter_source and filter_source != 'All'": the WHERE term is added only
\* for a value that is neither None, nor empty, nor "All"
FilterTerm(f) == IF f # None /\ f # "" /\ f # All THEN f ELSE None

load_data_from_db(t, filter_source, filter_label) ==
    IF ~t.exists THEN <<>>
    ELSE SelectSeq2(ensure_schema_compatibility(t).rows,
                    FilterTerm(filter_source), FilterTerm(filter_label))

\* the UPDATE without its WHERE clause
UpdateMatches_NoWhere(row, record_id) == TRUE

UpdateMatches(row, record_id) == row["record_id"] = record_id

update_record(t, record_id, reviewed_tags, tagging_notes, review_timestamp) ==
    [t EXCEPT !.rows =
        [i \in 1..Len(t.rows) |->
            IF UpdateMatches(t.rows[i], record_id)
            THEN [t.rows[i] EXCEPT !["reviewed_tags"] = reviewed_tags,
                                   !["tagging_notes"] = tagging_notes,
                                   !["review_date"] = review_timestamp]
            ELSE t.rows[i]]]

\* cursor.rowcount after the UPDATE (never read by update_record)
Rowcount(t, record_id) ==
    Cardinality({i \in 1..Len(t.rows) : UpdateMatches(t.rows[i], record_id)})

get_distinct_values(t, column_name) ==
    IF ~t.exists \/ column_name \notin t.columns THEN {}
    ELSE {t.rows[i][column_name] : i \in 1..Len(t.rows)} \ {None}

\* ------------------------------------------------------ the script run
\* line 257 / 476: a database is active and its file exists
ActiveValid(f, act) == act # NoDb /\ f[act].exists

\* the session's active name never read
active_db_name_Unread(f, act) == NoDb

\* line 191-196: the active name the Data Management tab works with
active_db_name(f, act) == IF ActiveValid(f, act) THEN act ELSE NoDb

\* st.selectbox with a key: the stored value is kept while it is one of the
\* options, otherwise the widget falls back to its first option "All"
Selectbox(value, options) == IF value \in options THEN value ELSE All

\* the bounds test left out
NavBounds_NoReset(nav, n) == IF nav = NoNav THEN 0 ELSE nav

\* line 289-296: nav_index as the Tag Review tab leaves it for a view of n rows
NavBounds(nav, n) ==
    IF nav = NoNav THEN 0
    ELSE IF nav >= n THEN 0
    ELSE nav

\* One run of the script from top to bottom with no button pressed: what it
\* leaves in the files (the migration done by load_data_from_db), in the
\* session state and in df_filtered.  A tab that does not render its filter
\* widgets drops their state, so they start again at "All".
Render(f, act, nav, src, lbl) ==
    IF ~ActiveValid(f, act)
    THEN [files |-> f, t2_source |-> All, t2_label |-> All,
          df_filtered |-> <<>>, nav_index |-> nav]
    ELSE LET source_opts == {All} \cup get_distinct_values(f[act], "source")
             label_opts == {All} \cup get_distinct_values(f[act], "WorksheetLabelArray")
             sel_source == Selectbox(src, source_opts)
             sel_label == Selectbox(lbl, label_opts)
             view == load_data_from_db(f[act], sel_source, sel_label)
         IN  [files |-> [f EXCEPT ![act] = ensure_schema_compatibility(@)],
              t2_source |-> sel_source,
              t2_label |-> sel_label,
              df_filtered |-> view,
              nav_index |-> IF Len(view) = 0 THEN nav ELSE NavBounds(nav, Len(view))]

\* the handler has left f, act, nav, src, lbl; the script then runs (again)
Rerun(f, act, nav, src, lbl) ==
    \E r \in {Render(f, act, nav, src, lbl)} :
        /\ files' = r.files
        /\ active_db' = act
        /\ nav_index' = r.nav_index
        /\ t2_source' = r.t2_source
        /\ t2_label' = r.t2_label
        /\ df_filtered' = r.df_filtered

\* a record is on the page (line 285-320)
Displayed == ActiveValid(files, active_db) /\ Len(df_filtered) > 0
row == df_filtered[nav_index + 1]

\* ------------------------------------------------- Data Management tab
\* the file left in TEMP_FOLDER before the session starts: none, or one
\* written before the review_date column existed
LegacyColumns == (REQUIRED_COLUMNS \cup ReviewColumns) \ {"review_date"}
LegacyTable ==
    LET t == init_db(Sheet(2, REQUIRED_COLUMNS, 1))
    IN  [exists |-> TRUE, columns |-> LegacyColumns,
         rows |-> [i \in 1..Len(t.rows) |-> [c \in LegacyColumns |-> t.rows[i][c]]]]

Init ==
    /\ \/ /\ files = [d \in DbNames |-> NoFile]
          /\ imported = [d \in DbNames |-> NoSheet]
       \/ /\ files = [d \in DbNames |-> IF d = "a.db" THEN LegacyTable ELSE NoFile]
          /\ imported = [d \in DbNames |->
                           IF d = "a.db" THEN Sheet(2, REQUIRED_COLUMNS, 1) ELSE NoSheet]
    /\ active_db = NoDb
    /\ nav_index = NoNav
    /\ t2_source = All
    /\ t2_label = All
    /\ df_filtered = <<>>
    /\ msg = NoMsg
    /\ now = 0
    /\ confirmed = [d \in DbNames |-> {}]
    /\ touched = {}
    /\ lastCall = [op |-> "none"]

\* line 162-165: the worksheet lacks required columns
UploadMissingColumns(df_preview) ==
    /\ MissingCols(df_preview) # {}
    /\ msg' = Message("Missing columns", MissingCols(df_preview))
    /\ Rerun(files, active_db, nav_index, t2_source, t2_label)
    /\ UNCHANGED <<now, confirmed, imported, touched, lastCall>>

\* line 167-177; db_filename is the upload's name and the current second
ImportToDatabase(df_preview, db_filename) ==
    /\ MissingCols(df_preview) = {}
    /\ Rerun([files EXCEPT ![db_filename] = init_db(df_preview)],
             active_db, nav_index, t2_source, t2_label)
    /\ msg' = NoMsg
    /\ imported' = [imported EXCEPT ![db_filename] = df_preview]
    /\ confirmed' = [confirmed EXCEPT ![db_filename] = {}]
    /\ touched' = touched \ {db_filename}
    /\ UNCHANGED <<now, lastCall>>

\* line 208-210
LoadDatabase(selected_db_to_manage) ==
    /\ files[selected_db_to_manage].exists
    /\ Rerun(files, selected_db_to_manage, nav_index, t2_source, t2_label)
    /\ msg' = NoMsg
    /\ UNCHANGED <<now, confirmed, imported, touched, lastCall>>

\* line 217-219: strip(), then ".db" appended unless already there
RenameInputs == {"", "a", "b.db", " b "}
CleanName(new_name_input) ==
    CASE new_name_input = "a" -> "a.db"
      [] new_name_input = "b.db" -> "b.db"
      [] new_name_input = " b " -> "b.db"

\* the old name removed and nothing put under the new one
Moved_Lost(fn, old, new, empty) ==
    [d \in DbNames |-> IF d = new \/ d = old THEN empty ELSE fn[d]]

Moved(fn, old, new, empty) ==
    [d \in DbNames |-> IF d = new THEN fn[old] ELSE IF d = old THEN empty ELSE fn[d]]

\* the os.path.exists test left out
RenameTargetExists_Unchecked(f, clean_new_name) == FALSE

RenameTargetExists(f, clean_new_name) == f[clean_new_name].exists

\* line 215-237
Rename(selected_db_to_manage, new_name_input) ==
    /\ files[selected_db_to_manage].exists
    /\ IF new_name_input = ""
       THEN /\ msg' = InvalidNameMsg
            /\ Rerun(files, active_db, nav_index, t2_source, t2_label)
            /\ UNCHANGED <<confirmed, imported, touched>>
       ELSE LET clean_new_name == CleanName(new_name_input)
                old == selected_db_to_manage
            IN  IF RenameTargetExists(files, clean_new_name)
                THEN /\ msg' = ExistsMsg
                     /\ Rerun(files, active_db, nav_index, t2_source, t2_label)
                     /\ UNCHANGED <<confirmed, imported, touched>>
                ELSE /\ msg' = NoMsg
                     /\ Rerun(Moved(files, old, clean_new_name, NoFile),
                              IF active_db_name(files, active_db) = old
                              THEN clean_new_name ELSE active_db,
                              nav_index, t2_source, t2_label)
                     /\ confirmed' = Moved(confirmed, old, clean_new_name, {})
                     /\ imported' = Moved(imported, old, clean_new_name, NoSheet)
                     /\ touched' = IF old \in touched
                                   THEN (touched \ {old}) \cup {clean_new_name}
                                   ELSE touched
    /\ UNCHANGED <<now, lastCall>>

\* line 242-251
ConfirmDelete(selected_db_to_manage) ==
    /\ files[selected_db_to_manage].exists
    /\ Rerun([files EXCEPT ![selected_db_to_manage] = NoFile],
             IF active_db_name(files, active_db) = selected_db_to_manage
             THEN NoDb ELSE active_db,
             nav_index, t2_source, t2_label)
    /\ msg' = NoMsg
    /\ confirmed' = [confirmed EXCEPT ![selected_db_to_manage] = {}]
    /\ imported' = [imported EXCEPT ![selected_db_to_manage] = NoSheet]
    /\ touched' = touched \ {selected_db_to_manage}
    /\ UNCHANGED <<now, lastCall>>

\* ------------------------------------------------------- Tag Review tab
\* the callback leaving the index alone
reset_nav_Keep(nav) == nav

reset_nav(nav) == 0

\* every string a filter option of the worksheets above can be
FilterValues == {All, "X", "", "L1", "L2"}

\* line 274: another source is picked; on_change runs before the script
ChangeSource(value) ==
    /\ ActiveValid(files, active_db)
    /\ value \in ({All} \cup get_distinct_values(files[active_db], "source")) \ {t2_source}
    /\ Rerun(files, active_db, reset_nav(nav_index), value, t2_label)
    /\ msg' = NoMsg
    /\ UNCHANGED <<now, confirmed, imported, touched, lastCall>>

\* line 276
ChangeLabel(value) ==
    /\ ActiveValid(files, active_db)
    /\ value \in ({All} \cup get_distinct_values(files[active_db], "WorksheetLabelArray"))
                    \ {t2_label}
    /\ Rerun(files, active_db, reset_nav(nav_index), t2_source, value)
    /\ msg' = NoMsg
    /\ UNCHANGED <<now, confirmed, imported, touched, lastCall>>

\* the test against the last index left out
next_record_NoGuard(nav, n) == nav + 1

next_record(nav, n) == IF nav < n - 1 THEN nav + 1 ELSE nav

prev_record(nav) == IF nav > 0 THEN nav - 1 ELSE nav

RECURSIVE ScanUnreviewed(_, _)
\* the first i in range(i, len(view)) with a NULL review_date, or NoNav
ScanUnreviewed(view, i) ==
    IF i >= Len(view) THEN NoNav
    ELSE IF view[i + 1]["review_date"] = NullDate THEN i
    ELSE ScanUnreviewed(view, i + 1)

\* range(nav_index, len(df_filtered))
ScanStart_Current(nav) == nav

ScanStart(nav) == nav + 1

next_unreviewed(nav, view) ==
    LET i == ScanUnreviewed(view, ScanStart(nav))
    IN  IF i # NoNav THEN [nav_index |-> i, found |-> TRUE]
        ELSE [nav_index |-> nav, found |-> FALSE]

\* line 416; the button is disabled on the first record
ClickPrevious ==
    /\ Displayed
    /\ nav_index # 0
    /\ Rerun(files, active_db, prev_record(nav_index), t2_source, t2_label)
    /\ msg' = NoMsg
    /\ UNCHANGED <<now, confirmed, imported, touched, lastCall>>

\* line 418; the button is disabled on the last record
ClickNext ==
    /\ Displayed
    /\ nav_index # Len(df_filtered) - 1
    /\ Rerun(files, active_db, next_record(nav_index, Len(df_filtered)),
             t2_source, t2_label)
    /\ msg' = NoMsg
    /\ UNCHANGED <<now, confirmed, imported, touched, lastCall>>

\* line 420
ClickNextUnreviewed ==
    /\ Displayed
    /\ LET r == next_unreviewed(nav_index, df_filtered)
       IN  /\ Rerun(files, active_db, r.nav_index, t2_source, t2_label)
           /\ msg' = IF r.found THEN NoMsg ELSE NoMoreMsg
    /\ UNCHANGED <<now, confirmed, imported, touched, lastCall>>

\* row['tagging_notes'] if pd.notna(...) else "" ; same for reviewed_tags
OrEmpty(v) == IF v = None THEN "" ELSE v

\* what a review handler does: update_record, then st.rerun()
SaveReview(reviewed_tags, tagging_notes) ==
    /\ now < MaxClock
    /\ now' = now + 1
    /\ Rerun([files EXCEPT ![active_db] =
                 update_record(files[active_db], row["record_id"], reviewed_tags,
                               tagging_notes, now')],
             active_db, nav_index, t2_source, t2_label)
    /\ msg' = NoMsg
    /\ touched' = touched \cup {active_db}
    /\ UNCHANGED <<imported, lastCall>>

\* line 357-364
ConfirmTags(csv_tags) ==
    /\ Displayed
    /\ SaveReview(csv_tags, OrEmpty(row["tagging_notes"]))
    /\ confirmed' = [confirmed EXCEPT ![active_db] = @ \cup {row["record_id"]}]

\* line 383-390: offered when the selection differs from the saved tags
ConfirmChanges(new_csv) ==
    /\ Displayed
    /\ SplitTags(new_csv) # SplitTags(row["reviewed_tags"])
    /\ SaveReview(new_csv, OrEmpty(row["tagging_notes"]))
    /\ confirmed' = [confirmed EXCEPT ![active_db] = @ \cup {row["record_id"]}]

NotesTags(r) == OrEmpty(r["reviewed_tags"])

\* line 404-409: offered when the text differs from the saved notes
SaveNotes(notes_val) ==
    /\ Displayed
    /\ notes_val # OrEmpty(row["tagging_notes"])
    /\ SaveReview(NotesTags(row), notes_val)
    /\ UNCHANGED confirmed

Next ==
    \/ \E df \in Sheets : UploadMissingColumns(df)
    \/ \E df \in Sheets, d \in DbNames : ImportToDatabase(df, d)
    \/ \E d \in DbNames : LoadDatabase(d)
    \/ \E d \in DbNames, input \in RenameInputs : Rename(d, input)
    \/ \E d \in DbNames : ConfirmDelete(d)
    \/ \E v \in FilterValues : ChangeSource(v)
    \/ \E v \in FilterValues : ChangeLabel(v)
    \/ ClickPrevious
    \/ ClickNext
    \/ ClickNextUnreviewed
    \/ \E csv \in CsvChoices : ConfirmTags(csv)
    \/ \E csv \in CsvChoices : ConfirmChanges(csv)
    \/ \E notes \in NoteChoices : SaveNotes(notes)

Spec == Init /\ [][Next]_vars

\* ------------------------------------------------------------ StoreSpec
\* The helper functions called directly.  lastCall records the call, what it
\* returned, and (for the UPDATE) the cursor's rowcount.
StoreInit ==
    /\ files = [d \in DbNames |-> NoFile]
    /\ active_db = NoDb
    /\ nav_index = NoNav
    /\ t2_source = All
    /\ t2_label = All
    /\ df_filtered = <<>>
    /\ msg = NoMsg
    /\ now = 0
    /\ confirmed = [d \in DbNames |-> {}]
    /\ imported = [d \in DbNames |-> NoSheet]
    /\ touched = {}
    /\ lastCall = [op |-> "none"]

SessionUnchanged ==
    UNCHANGED <<active_db, nav_index, t2_source, t2_label, df_filtered, msg>>

CallInitDb(filename, df) ==
    /\ files' = [files EXCEPT ![filename] = init_db(df)]
    /\ imported' = [imported EXCEPT ![filename] = df]
    /\ confirmed' = [confirmed EXCEPT ![filename] = {}]
    /\ touched' = touched \ {filename}
    /\ lastCall' = [op |-> "init_db", db |-> filename, df |-> df, ret |-> "None"]
    /\ UNCHANGED now
    /\ SessionUnchanged

CallUpdateRecord(filename, record_id, reviewed_tags, tagging_notes) ==
    /\ files[filename].exists
    /\ now < MaxClock
    /\ now' = now + 1
    /\ files' = [files EXCEPT ![filename] =
                    update_record(files[filename], record_id, reviewed_tags,
                                  tagging_notes, now')]
    /\ lastCall' = [op |-> "update", db |-> filename, record_id |-> record_id,
                    reviewed_tags |-> reviewed_tags, tagging_notes |-> tagging_notes,
                    rowcount |-> Rowcount(files[filename], record_id),
                    ret |-> "None"]
    /\ touched' = touched \cup {filename}
    /\ UNCHANGED <<confirmed, imported>>
    /\ SessionUnchanged

\* want_source / want_label: the filter the caller means (Unset, or a value of
\* the column); an unset component is passed as the default None or as the
\* first selectbox option "All", a set one as the value itself.
CallLoadData(filename, want_source, want_label, unset_as) ==
    LET fs == IF want_source = Unset THEN unset_as ELSE want_source
        fl == IF want_label = Unset THEN unset_as ELSE want_label
    IN  /\ files' = [files EXCEPT ![filename] = ensure_schema_compatibility(@)]
        /\ lastCall' = [op |-> "query", db |-> filename,
                        want_source |-> want_source, want_label |-> want_label,
                        filter_source |-> fs, filter_label |-> fl,
                        result |-> load_data_from_db(files[filename], fs, fl)]
        /\ UNCHANGED <<now, confirmed, imported, touched>>
        /\ SessionUnchanged

StoreNext ==
    \/ \E d \in StoreDbs, df \in DataFrames : CallInitDb(d, df)
    \/ \E d \in StoreDbs, id \in 0..(MaxRows + 1), tags \in CsvChoices, notes \in NoteChoices :
          CallUpdateRecord(d, id, tags, notes)
    \/ \E d \in StoreDbs, unset_as \in {None, All} :
          \E ws \in {Unset} \cup get_distinct_values(files[d], "source"),
             wl \in {Unset} \cup get_distinct_values(files[d], "WorksheetLabelArray") :
             CallLoadData(d, ws, wl, unset_as)

StoreSpec == StoreInit /\ [][StoreNext]_vars

\* -------------------------------------------------------------- NavSpec
\* The navigation callbacks called directly on a view of one or more rows and
\* an index inside it, the disabled state of the buttons set aside.
ViewOf(n, reviewed) ==
    [i \in 1..n |->
        [init_db(Sheet(n, REQUIRED_COLUMNS, 1)).rows[i] EXCEPT
            !["review_date"] = IF i \in reviewed THEN 1 ELSE NullDate]]

NavViews ==
    {ViewOf(n, reviewed) : n \in 1..(MaxRows + 2), reviewed \in SUBSET (1..(MaxRows + 2))}

NavInit ==
    /\ files = [d \in DbNames |-> NoFile]
    /\ active_db = NoDb
    /\ df_filtered \in NavViews
    /\ nav_index \in 0..(Len(df_filtered) - 1)
    /\ t2_source = All
    /\ t2_label = All
    /\ msg = NoMsg
    /\ now = 0
    /\ confirmed = [d \in DbNames |-> {}]
    /\ imported = [d \in DbNames |-> NoSheet]
    /\ touched = {}
    /\ lastCall = [op |-> "none"]

NavUnchanged ==
    UNCHANGED <<files, active_db, t2_source, t2_label, df_filtered, now,
                confirmed, imported, touched>>

CallNextRecord ==
    /\ nav_index' = next_record(nav_index, Len(df_filtered))
    /\ lastCall' = [op |-> "next_record", from |-> nav_index]
    /\ msg' = NoMsg
    /\ NavUnchanged

CallPrevRecord ==
    /\ nav_index' = prev_record(nav_index)
    /\ lastCall' = [op |-> "prev_record", from |-> nav_index]
    /\ msg' = NoMsg
    /\ NavUnchanged

CallNextUnreviewed ==
    /\ nav_index' = next_unreviewed(nav_index, df_filtered).nav_index
    /\ lastCall' = [op |-> "next_unreviewed", from |-> nav_index]
    /\ msg' = IF next_unreviewed(nav_index, df_filtered).found THEN NoMsg ELSE NoMoreMsg
    /\ NavUnchanged

NavNext ==
    \/ CallNextRecord
    \/ CallPrevRecord
    \/ CallNextUnreviewed

NavSpec == NavInit /\ [][NavNext]_vars

\* ================================================================ claims

\* rows of a table that carry the review_date column
Rows(t) == IF "review_date" \in t.columns THEN t.rows ELSE <<>>

\* C1: in every state, a record's review_date is NULL exactly when no tag
\* confirmation was ever saved for it.
C1_NullIffNeverConfirmed ==
    \A d \in DbNames :
        \A i \in 1..Len(Rows(files[d])) :
            (files[d].rows[i]["review_date"] = NullDate)
                <=> (files[d].rows[i]["record_id"] \notin confirmed[d])

\* C2: a call of update_record changes only reviewed_tags, tagging_notes and
\* review_date of the rows whose record_id is the argument, sets all three in
\* the same step, and leaves every other row, column and file, and the
\* number of rows, as they were; with no matching row nothing is altered.
C2_UpdateFrame ==
    [][now' # now =>
        LET d == lastCall'.db
            old == files[d].rows
            new == files'[d].rows
        IN  /\ lastCall'.op = "update"
            /\ \A e \in DbNames \ {d} : files'[e] = files[e]
            /\ files'[d].columns = files[d].columns
            /\ Len(new) = Len(old)
            /\ \A i \in 1..Len(old) :
                IF old[i]["record_id"] = lastCall'.record_id
                THEN /\ new[i]["reviewed_tags"] = lastCall'.reviewed_tags
                     /\ new[i]["tagging_notes"] = lastCall'.tagging_notes
                     /\ new[i]["review_date"] = now'
                     /\ \A c \in files[d].columns \ {"reviewed_tags", "tagging_notes", "review_date"} :
                            new[i][c] = old[i][c]
                ELSE new[i] = old[i]
    ]_vars

C2_Witness ==
    /\ lastCall.op = "update"
    /\ lastCall.rowcount = 1
    /\ Len(files[lastCall.db].rows) >= 2
    /\ \E i \in 1..Len(files[lastCall.db].rows) :
          files[lastCall.db].rows[i]["review_date"] = NullDate

\* C3: an update_record call whose record_id matches no row does not hand its
\* caller the same outcome as a call that updated a row.
C3_ZeroRowsDistinguishable ==
    (lastCall.op = "update" /\ lastCall.rowcount = 0) => lastCall.ret # "None"

\* C4: init_db called with a dataframe lacking a required column is rejected
\* and creates or overwrites no dataset.
C4_InitDbRejectsMissing ==
    [][(/\ lastCall' # lastCall
        /\ lastCall'.op = "init_db"
        /\ MissingCols(lastCall'.df) # {})
            => (files' = files /\ lastCall'.ret = "SchemaError")]_vars

\* C5: a query with no filter on a dataset created from N rows having all
\* required columns returns N records in input order with record_id 1..N and
\* the input's value in every required column; with no update since the
\* import, reviewed_tags is NULL, tagging_notes empty and review_date NULL.
C5_ImportRoundTrip ==
    (/\ lastCall.op = "query"
     /\ lastCall.want_source = Unset
     /\ lastCall.want_label = Unset
     /\ MissingCols(imported[lastCall.db]) = {})
    => LET df == imported[lastCall.db]
           res == lastCall.result
       IN  /\ Len(res) = Len(df.rows)
           /\ \A i \in 1..Len(res) :
                /\ res[i]["record_id"] = i
                /\ \A c \in REQUIRED_COLUMNS : res[i][c] = df.rows[i][c]
                /\ lastCall.db \notin touched =>
                      /\ res[i]["reviewed_tags"] = None
                      /\ res[i]["tagging_notes"] = ""
                      /\ res[i]["review_date"] = NullDate

C5_Witness ==
    /\ lastCall.op = "query"
    /\ lastCall.want_source = Unset
    /\ lastCall.want_label = Unset
    /\ lastCall.db \notin touched
    /\ MissingCols(imported[lastCall.db]) = {}
    /\ Len(lastCall.result) = MaxRows

\* C6: a query returns exactly the rows whose source equals the source value
\* the filter sets and whose WorksheetLabelArray equals the label value it
\* sets (all rows for an unset component), in record_id order, for every
\* value present in the column.
C6_QueryExactMatch ==
    lastCall.op = "query" =>
        LET Wanted(r) ==
                /\ (lastCall.want_source = Unset \/ r["source"] = lastCall.want_source)
                /\ (lastCall.want_label = Unset
                        \/ r["WorksheetLabelArray"] = lastCall.want_label)
        IN  lastCall.result = SelectSeq(files[lastCall.db].rows, Wanted)

\* C7: a Rename whose cleaned new name is an existing file (the old name
\* included) shows the already-exists error and changes no file and not the
\* active database.
C7_RenameToExistingFails ==
    [][\A d \in DbNames, input \in RenameInputs \ {""} :
        (Rename(d, input) /\ files[CleanName(input)].exists)
            => /\ msg' = ExistsMsg
               /\ files' = files
               /\ active_db' = active_db
    ]_vars

C7_Witness ==
    /\ msg = ExistsMsg
    /\ \A d \in DbNames : files[d].exists
    /\ active_db # NoDb

\* C8: a Rename to a free name removes the old name from the folder and puts
\* the same table under the new name; the active database becomes the new
\* name when the old one was active and is unchanged otherwise.
C8_RenameMoves ==
    [][\A d \in DbNames, input \in RenameInputs \ {""} :
        (Rename(d, input) /\ ~files[CleanName(input)].exists)
            => /\ ~files'[d].exists
               /\ files'[CleanName(input)] = files[d]
               /\ active_db' = IF active_db = d THEN CleanName(input) ELSE active_db
    ]_vars

\* the two-row table exists under a.db only before any import, so under b.db
\* it has been renamed
C8_Witness ==
    /\ ~files["a.db"].exists
    /\ files["b.db"].exists
    /\ Len(files["b.db"].rows) = 2
    /\ active_db = "b.db"

\* C9: whenever a record is displayed the navigator index is within the view,
\* and a run that finds the index at or past the end of its view leaves it 0;
\* with an empty view no record is displayed.
C9_NavInBounds ==
    /\ [](Displayed => (0 <= nav_index /\ nav_index <= Len(df_filtered) - 1))
    /\ [][(Displayed' /\ nav_index >= Len(df_filtered')) => nav_index' = 0]_vars

C9_Witness ==
    /\ ActiveValid(files, active_db)
    /\ Len(df_filtered) = 0
    /\ nav_index > 0

\* C10: Next Unreviewed moves the index to the smallest later index whose
\* record has a NULL review_date; when there is none the index stays and the
\* no-more-records message is shown.
C10_NextUnreviewed ==
    [][ClickNextUnreviewed =>
        LET later == {j \in (nav_index + 1)..(Len(df_filtered) - 1) :
                        df_filtered[j + 1]["review_date"] = NullDate}
        IN  IF later # {}
            THEN /\ nav_index' \in later
                 /\ \A j \in later : nav_index' <= j
                 /\ msg' = NoMsg
            ELSE /\ nav_index' = nav_index
                 /\ msg' = NoMoreMsg
    ]_vars

\* told that nothing follows, on a record that is itself unreviewed and is
\* not the last of its view
C10_Witness ==
    /\ msg = NoMoreMsg
    /\ Displayed
    /\ nav_index < Len(df_filtered) - 1
    /\ df_filtered[nav_index + 1]["review_date"] = NullDate

Min2(a, b) == IF a < b THEN a ELSE b
Max2(a, b) == IF a > b THEN a ELSE b

\* C11: next_record takes index i of a view of N rows to min(i+1, N-1) and
\* prev_record takes it to max(i-1, 0); each moves by one position and does
\* nothing at the last, respectively the first, index.
C11_NextPrevious ==
    [][/\ CallNextRecord => nav_index' = Min2(nav_index + 1, Len(df_filtered) - 1)
       /\ CallPrevRecord => nav_index' = Max2(nav_index - 1, 0)]_vars

\* next_record was called at the last index of a view of several rows and
\* left the index there
C11_Witness ==
    /\ lastCall.op = "next_record"
    /\ Len(df_filtered) >= 2
    /\ lastCall.from = Len(df_filtered) - 1
    /\ nav_index = lastCall.from

\* C12: loading a dataset other than the active one while the navigator index
\* is above 0 leaves the index at 0.
C12_LoadResetsNav ==
    [][\A d \in DbNames :
        (LoadDatabase(d) /\ d # active_db /\ nav_index > 0) => nav_index' = 0]_vars

\* C13: a change of the source or of the worksheet label filter leaves the
\* navigator index at 0, whatever it was.
C13_FilterResetsNav ==
    [][(\E v \in FilterValues : ChangeSource(v) \/ ChangeLabel(v))
          => nav_index' = 0]_vars

\* a label filter is set, so a filter change has run, and the first of
\* several records is shown
C13_Witness ==
    /\ Displayed
    /\ t2_label # All
    /\ Len(df_filtered) >= 2
    /\ nav_index = 0

\* C14: the active database is unset or a file in the folder; deleting the
\* active file unsets it, and deleting or renaming another file leaves it
\* unchanged.
C14_ActiveExists ==
    /\ [](active_db = NoDb \/ files[active_db].exists)
    /\ [][\A d \in DbNames :
            /\ (ConfirmDelete(d) /\ d = active_db) => active_db' = NoDb
            /\ (ConfirmDelete(d) /\ d # active_db) => active_db' = active_db
            /\ (d # active_db /\ \E input \in RenameInputs : Rename(d, input))
                  => active_db' = active_db]_vars

\* an index is set, so a record was shown, and no database is active: the
\* active file was deleted
C14_Witness ==
    /\ active_db = NoDb
    /\ nav_index # NoNav
    /\ \E d \in DbNames : files[d].exists

\* the value column holds for record id in table t
Stored(t, id, column) == {t.rows[i][column] : i \in {j \in 1..Len(t.rows) : t.rows[j]["record_id"] = id}}

\* C15: Save Notes leaves the stored reviewed_tags of the record as it was
\* (NULL when it was NULL), and Confirm Tags and Confirm Changes leave its
\* stored tagging_notes as it was.
C15_ReviewFrame ==
    [][LET id == row["record_id"]
           Same(column) == Stored(files'[active_db], id, column)
                               = Stored(files[active_db], id, column)
       IN  /\ (\E notes \in NoteChoices : SaveNotes(notes)) => Same("reviewed_tags")
           /\ (\E csv \in CsvChoices : ConfirmTags(csv) \/ ConfirmChanges(csv))
                 => Same("tagging_notes")]_vars

\* record id of table t has a review_date that is not NULL
Reviewed(t, id) ==
    \E i \in 1..Len(Rows(t)) : t.rows[i]["record_id"] = id /\ t.rows[i]["review_date"] # NullDate

====
